---- MODULE Spec2Model ----
(***************************************************************************)
(* A model of fdon-rs (src/src/lib.rs, src/src/main.rs): the whitespace    *)
(* minifier minify_fdon and the zero-copy recursive-descent FdonParser.    *)
(*                                                                         *)
(* Bytes are one-character strings; a byte >= 0x80 is written as its two   *)
(* hexadecimal digits ("C3").  Buffers are sequences of bytes.  The code's *)
(* indices are 0-based: At(b, k) is b[k] of the code.                      *)
(***************************************************************************)
EXTENDS Integers, Sequences, FiniteSets, TLC

VARIABLES
    mode,           \* which driver runs: "minify" (twice), "parse", "main"
    pc,             \* position of the driver / of the parser
    raw_content,    \* the bytes the run started from
    input_bytes,    \* minify_fdon: its input
    i,              \* minify_fdon: loop index
    minified,       \* minify_fdon: output vector
    in_string_s,    \* minify_fdon: inside S"..." / D"..." / T"..."
    in_string_se,   \* minify_fdon: inside SE"..."
    passes,         \* number of minify_fdon calls that have returned
    out1,           \* what the first minify_fdon call returned
    data,           \* FdonParser.data
    index,          \* FdonParser.index
    stack,          \* the parse_object / parse_array activations, innermost last
    ctor,           \* constructor the pending leaf reader wraps its payload in
    unescaped_str,  \* parse_escaped_string: the arena string
    start_chunk,    \* parse_escaped_string: start of the chunk not yet copied
    ret,            \* value the last parse_value call returned, not yet used
    result,         \* what parse() returned
    slice,          \* bounds <<start, end>> of the last slice taken of data
    commas,         \* <<kind, index>> of every ',' a container has consumed
    doc             \* structure the input was rendered from (NoDoc: raw bytes)

vars == <<mode, pc, raw_content, input_bytes, i, minified, in_string_s,
          in_string_se, passes, out1, data, index, stack, ctor, unescaped_str,
          start_chunk, ret, result, slice, commas, doc>>

minVars == <<input_bytes, i, minified, in_string_s, in_string_se>>
parseVars == <<data, index, stack, ctor, unescaped_str, start_chunk, ret,
               result, slice, commas>>

----------------------------------------------------------------------------
(* Bytes *)

QUOTE == "\""
BACKSLASH == "\\"
SPACE == " "
TAB == "\t"
LF == "\n"
CR == "\r"

At(b, k) == b[k + 1]

\* b[from..to) of the code
Slice(b, from, to) == SubSeq(b, from + 1, to)

\* a whitespace test that also takes the byte 'E' for whitespace
IsWs_with_E(byte) ==
    byte = SPACE \/ byte = LF \/ byte = CR \/ byte = TAB \/ byte = "E"

\* the whitespace test of lines 80 and 109
IsWs(byte) == byte = SPACE \/ byte = LF \/ byte = CR \/ byte = TAB

----------------------------------------------------------------------------
(* minify_fdon *)

\* the '"' branch, lines 58-71: the new value of in_string_s
QuoteToggle(b, k, out, in_s) ==
    IF ~in_s /\ k > 0
    THEN IF At(b, k - 1) \in {"S", "D", "T"} THEN TRUE ELSE in_s
    ELSE FALSE

\* the whitespace skip of lines 80-82: the index it stops at
RECURSIVE SkipWs(_, _)
SkipWs(b, k) ==
    IF k < Len(b) /\ IsWs(At(b, k)) THEN SkipWs(b, k + 1) ELSE k

\* the copy loop of lines 89-103, entered with in_string_se = true
RECURSIVE SeCopy(_, _, _)
SeCopy(b, k, out) ==
    IF k < Len(b)
    THEN LET se_byte == At(b, k)
             out1_ == Append(out, se_byte)
             k1 == k + 1
         IN  IF se_byte = BACKSLASH /\ k1 < Len(b)
             THEN SeCopy(b, k1 + 1, Append(out1_, At(b, k1)))
             ELSE IF se_byte = QUOTE
                  THEN [i |-> k1, minified |-> out1_, in_string_se |-> FALSE]
                  ELSE SeCopy(b, k1, out1_)
    ELSE [i |-> k, minified |-> out, in_string_se |-> TRUE]

\* the SE branch, lines 74-106, from the byte 'S' at k
SeBranch(b, k, out) ==
    LET out2 == out \o <<"S", "E">>
        k2 == SkipWs(b, k + 2)
    IN  IF k2 < Len(b) /\ At(b, k2) = QUOTE
        THEN SeCopy(b, k2 + 1, Append(out2, QUOTE))
        ELSE [i |-> k2, minified |-> out2, in_string_se |-> FALSE]

\* minify_fdon is called on the buffer (lines 47-53); main.rs calls it once,
\* the idempotence driver calls it again on what it returned
MinifyCall ==
    /\ \/ pc = "start" /\ mode \in {"minify", "main"}
       \/ pc = "minified" /\ mode = "minify" /\ passes < 2
    /\ input_bytes' = IF pc = "start" THEN raw_content ELSE minified
    /\ i' = 0
    /\ minified' = <<>>
    /\ in_string_s' = FALSE
    /\ in_string_se' = FALSE
    /\ pc' = "minify"
    /\ UNCHANGED <<mode, raw_content, passes, out1, doc>>
    /\ UNCHANGED parseVars

\* lines 58-71
MinifyQuote ==
    /\ pc = "minify"
    /\ i < Len(input_bytes)
    /\ At(input_bytes, i) = QUOTE /\ ~in_string_se
    /\ in_string_s' = QuoteToggle(input_bytes, i, minified, in_string_s)
    /\ minified' = Append(minified, At(input_bytes, i))
    /\ i' = i + 1
    /\ UNCHANGED <<mode, pc, raw_content, input_bytes, in_string_se, passes, out1, doc>>
    /\ UNCHANGED parseVars

\* lines 74-106
MinifyEscaped ==
    /\ pc = "minify"
    /\ i < Len(input_bytes)
    /\ ~(At(input_bytes, i) = QUOTE /\ ~in_string_se)
    /\ At(input_bytes, i) = "S"
    /\ i + 1 < Len(input_bytes) /\ At(input_bytes, i + 1) = "E"
    /\ LET r == SeBranch(input_bytes, i, minified)
       IN  /\ i' = r.i
           /\ minified' = r.minified
           /\ in_string_se' = r.in_string_se
    /\ UNCHANGED <<mode, pc, raw_content, input_bytes, in_string_s, passes, out1, doc>>
    /\ UNCHANGED parseVars

\* neither of the two branches above is taken
MinifyFallsThrough ==
    /\ pc = "minify"
    /\ i < Len(input_bytes)
    /\ ~(At(input_bytes, i) = QUOTE /\ ~in_string_se)
    /\ ~(/\ At(input_bytes, i) = "S"
         /\ i + 1 < Len(input_bytes)
         /\ At(input_bytes, i + 1) = "E")

\* lines 109-112
MinifySkip ==
    /\ MinifyFallsThrough
    /\ IsWs(At(input_bytes, i)) /\ ~in_string_s /\ ~in_string_se
    /\ i' = i + 1
    /\ UNCHANGED <<mode, pc, raw_content, input_bytes, minified, in_string_s,
                   in_string_se, passes, out1, doc>>
    /\ UNCHANGED parseVars

\* lines 115-116
MinifyCopy ==
    /\ MinifyFallsThrough
    /\ ~(IsWs(At(input_bytes, i)) /\ ~in_string_s /\ ~in_string_se)
    /\ minified' = Append(minified, At(input_bytes, i))
    /\ i' = i + 1
    /\ UNCHANGED <<mode, pc, raw_content, input_bytes, in_string_s,
                   in_string_se, passes, out1, doc>>
    /\ UNCHANGED parseVars

\* the loop ends and the vector is returned (lines 54, 119)
MinifyReturn ==
    /\ pc = "minify"
    /\ ~(i < Len(input_bytes))
    /\ pc' = "minified"
    /\ passes' = passes + 1
    /\ out1' = IF passes = 0 THEN minified ELSE out1
    /\ UNCHANGED <<mode, raw_content, doc>>
    /\ UNCHANGED minVars
    /\ UNCHANGED parseVars

----------------------------------------------------------------------------
(* FdonValue, FdonNumber, ParseResult *)

NullV == [t |-> "Null", v |-> <<>>]
BoolV(b) == [t |-> "Bool", v |-> b]
IntegerN(n) == [k |-> "Integer", n |-> n]
FloatN(text) == [k |-> "Float", n |-> text]
Wrap(c, payload) == [t |-> c, v |-> payload]

NoRet == [some |-> FALSE, v |-> NullV]
SomeRet(v) == [some |-> TRUE, v |-> v]

NoResult == [st |-> "None", value |-> NullV, msg |-> "", offset |-> 0]
Ok(v) == [st |-> "Ok", value |-> v, msg |-> "", offset |-> 0]
Err(msg, off) == [st |-> "Err", value |-> NullV, msg |-> msg, offset |-> off]

----------------------------------------------------------------------------
(* Cursor helpers and scanners *)

EOF == "EOF"

\* peek, lines 143-145
Peek(d, idx) == IF idx < Len(d) THEN At(d, idx) ELSE EOF

\* memchr / memchr2 / memchr3 over d[from..]: the absolute position of the
\* first byte in set, or -1
RECURSIVE Memchr(_, _, _)
Memchr(set, d, from) ==
    IF from >= Len(d) THEN -1
    ELSE IF At(d, from) \in set THEN from
    ELSE Memchr(set, d, from + 1)

----------------------------------------------------------------------------
(* Number decoding: atoi::atoi::<i64> and fast_float::parse::<f64> *)

Digit == {"0", "1", "2", "3", "4", "5", "6", "7", "8", "9"}

DigitVal(b) ==
    CASE b = "0" -> 0 [] b = "1" -> 1 [] b = "2" -> 2 [] b = "3" -> 3
      [] b = "4" -> 4 [] b = "5" -> 5 [] b = "6" -> 6 [] b = "7" -> 7
      [] b = "8" -> 8 [] b = "9" -> 9

\* the end of the run of decimal digits that starts at k
RECURSIVE DigitsEnd(_, _)
DigitsEnd(s, k) ==
    IF k < Len(s) /\ At(s, k) \in Digit THEN DigitsEnd(s, k + 1) ELSE k

\* the value of the digits s[from..to)
RECURSIVE DigitsValue(_, _, _, _)
DigitsValue(s, from, to, acc) ==
    IF from >= to THEN acc
    ELSE DigitsValue(s, from + 1, to, acc * 10 + DigitVal(At(s, from)))

\* atoi::atoi (line 421): an optional sign, then the leading digits; the bytes
\* after them are ignored; None when no byte was used.  (The inputs of this
\* model have fewer digits than i64 holds, so the overflow check never fires.)
Atoi(s) ==
    LET signed == Len(s) > 0 /\ At(s, 0) \in {"+", "-"}
        k0 == IF signed THEN 1 ELSE 0
        k1 == DigitsEnd(s, k0)
        mag == DigitsValue(s, k0, k1, 0)
    IN  IF k1 = 0
        THEN [some |-> FALSE, n |-> 0]
        ELSE [some |-> TRUE,
              n |-> IF signed /\ At(s, 0) = "-" THEN 0 - mag ELSE mag]

\* fast_float::parse (line 417): the whole slice must be a decimal float
FastFloatOk(s) ==
    LET k0 == IF Len(s) > 0 /\ At(s, 0) \in {"+", "-"} THEN 1 ELSE 0
        k1 == DigitsEnd(s, k0)
        dot == k1 < Len(s) /\ At(s, k1) = "."
        k2 == IF dot THEN DigitsEnd(s, k1 + 1) ELSE k1
        ndigits == (k1 - k0) + (IF dot THEN k2 - k1 - 1 ELSE 0)
        hasExp == k2 < Len(s) /\ At(s, k2) \in {"e", "E"}
        k3 == IF hasExp /\ k2 + 1 < Len(s) /\ At(s, k2 + 1) \in {"+", "-"}
              THEN k2 + 2 ELSE k2 + 1
        k4 == DigitsEnd(s, k3)
        end == IF hasExp /\ k4 > k3 THEN k4 ELSE k2
    IN  ndigits > 0 /\ end = Len(s)

\* parse_number_internal, lines 393-425
parse_number_internal(d, idx) ==
    LET pos == Memchr({",", "}", "]"}, d, idx)
        end == IF pos >= 0 THEN pos ELSE Len(d)
        num_slice == Slice(d, idx, end)
        is_float == Memchr({"."}, num_slice, 0) >= 0
    IN  IF num_slice = <<>>
        THEN [ok |-> FALSE, index |-> end, msg |-> "Empty number value",
              off |-> end, slice |-> <<idx, end>>, num |-> IntegerN(0)]
        ELSE IF is_float
        THEN IF FastFloatOk(num_slice)
             THEN [ok |-> TRUE, index |-> end, msg |-> "", off |-> 0,
                   slice |-> <<idx, end>>, num |-> FloatN(num_slice)]
             ELSE [ok |-> FALSE, index |-> end, msg |-> "Invalid float format",
                   off |-> idx, slice |-> <<idx, end>>, num |-> IntegerN(0)]
        ELSE IF Atoi(num_slice).some
             THEN [ok |-> TRUE, index |-> end, msg |-> "", off |-> 0,
                   slice |-> <<idx, end>>, num |-> IntegerN(Atoi(num_slice).n)]
             ELSE [ok |-> FALSE, index |-> end,
                   msg |-> "Invalid integer format or out of range",
                   off |-> idx, slice |-> <<idx, end>>, num |-> IntegerN(0)]

----------------------------------------------------------------------------
(* Leaf readers *)

\* parse_raw_string, lines 300-322, entered at idx
parse_raw_string(d, idx, constructor) ==
    IF Peek(d, idx) # QUOTE
    THEN [ok |-> FALSE, index |-> idx, msg |-> "Expected", off |-> idx,
          slice |-> <<0, 0>>, value |-> NullV]
    ELSE LET start == idx + 1
             end == Memchr({QUOTE}, d, start)
         IN  IF end >= 0
             THEN [ok |-> TRUE, index |-> end + 1, msg |-> "", off |-> 0,
                   slice |-> <<start, end>>,
                   value |-> Wrap(constructor, Slice(d, start, end))]
             ELSE [ok |-> FALSE, index |-> start,
                   msg |-> "EOF while reading string", off |-> start,
                   slice |-> <<0, 0>>, value |-> NullV]

\* parse_boolean with only the first byte compared before the cursor jumps
parse_boolean_first_byte(d, idx) ==
    IF Peek(d, idx) = "t"
    THEN [ok |-> TRUE, index |-> idx + 4, value |-> BoolV(TRUE)]
    ELSE IF Peek(d, idx) = "f"
    THEN [ok |-> TRUE, index |-> idx + 5, value |-> BoolV(FALSE)]
    ELSE [ok |-> FALSE, index |-> idx, value |-> NullV]

\* parse_boolean, lines 429-439
parse_boolean(d, idx) ==
    IF idx + 4 <= Len(d) /\ Slice(d, idx, idx + 4) = <<"t", "r", "u", "e">>
    THEN [ok |-> TRUE, index |-> idx + 4, value |-> BoolV(TRUE)]
    ELSE IF /\ idx + 5 <= Len(d)
            /\ Slice(d, idx, idx + 5) = <<"f", "a", "l", "s", "e">>
    THEN [ok |-> TRUE, index |-> idx + 5, value |-> BoolV(FALSE)]
    ELSE [ok |-> FALSE, index |-> idx, value |-> NullV]

\* parse_key, lines 258-274
parse_key(d, idx) ==
    LET end == Memchr({":"}, d, idx)
    IN  IF end >= 0
        THEN [ok |-> TRUE, index |-> end, key |-> Slice(d, idx, end),
              slice |-> <<idx, end>>]
        ELSE [ok |-> FALSE, index |-> idx, key |-> <<>>, slice |-> <<0, 0>>]

\* the bytes `unescaped_str.push(other as char)` appends (line 375): the char
\* U+00xx of byte xx, UTF-8 encoded: one byte below 0x80, two from 0x80 on
PushAsChar(other) ==
    CASE other = "C3" -> <<"C3", "83">>
      [] other = "A9" -> <<"C2", "A9">>
      [] other = "83" -> <<"C2", "83">>
      [] other = "C2" -> <<"C3", "82">>
      [] OTHER -> <<other>>

\* the match of lines 366-378 on the byte after a backslash
Unescape(byte) ==
    CASE byte = "n" -> <<LF>>
      [] byte = "t" -> <<TAB>>
      [] byte = "r" -> <<CR>>
      [] byte = QUOTE -> <<QUOTE>>
      [] byte = BACKSLASH -> <<BACKSLASH>>
      [] OTHER -> PushAsChar(byte)

\* one iteration of the while-let of parse_escaped_string, lines 334-387
EscapedStep(d, idx, str, chunk0) ==
    LET pos == Memchr({BACKSLASH, QUOTE}, d, idx)
        chunk == Slice(d, chunk0, pos)
    IN  IF pos < 0
        THEN [kind |-> "err", index |-> idx, str |-> str, start_chunk |-> chunk0,
              msg |-> "EOF while reading escaped string", off |-> idx,
              slice |-> <<0, 0>>]
        ELSE IF At(d, pos) = QUOTE
        THEN [kind |-> "done", index |-> pos + 1, str |-> str \o chunk,
              start_chunk |-> chunk0, msg |-> "", off |-> 0,
              slice |-> <<chunk0, pos>>]
        ELSE IF Peek(d, pos + 1) = EOF
        THEN [kind |-> "err", index |-> pos + 1, str |-> str \o chunk,
              start_chunk |-> chunk0, msg |-> "EOF after escape character",
              off |-> pos + 1, slice |-> <<chunk0, pos>>]
        ELSE [kind |-> "more", index |-> pos + 2,
              str |-> (str \o chunk) \o Unescape(At(d, pos + 1)),
              start_chunk |-> pos + 2, msg |-> "", off |-> 0,
              slice |-> <<chunk0, pos>>]

----------------------------------------------------------------------------
(* Containers *)

NoKey == <<>>
EmptyObject == <<>>

ArrayFrame == [kind |-> "A", arr |-> <<>>, obj |-> EmptyObject, key |-> NoKey]
ObjectFrame == [kind |-> "O", arr |-> <<>>, obj |-> EmptyObject, key |-> NoKey]

\* an insert that keeps the entry of an equal key
Insert_keep_first(obj, key, value) ==
    [x \in (DOMAIN obj) \cup {key} |-> IF x \in DOMAIN obj THEN obj[x] ELSE value]

\* obj.insert(key, value), line 241: the entry of an equal key is overwritten
Insert(obj, key, value) ==
    [x \in (DOMAIN obj) \cup {key} |-> IF x = key THEN value ELSE obj[x]]

\* arr.push(value), line 283
Push(arr, value) == Append(arr, value)

\* the comma discipline without the test of the byte after the ','
AfterValue_no_trailing_test(d, idx, close) ==
    IF Peek(d, idx) = ","
    THEN [ok |-> TRUE, index |-> idx + 1, comma |-> TRUE, msg |-> ""]
    ELSE IF Peek(d, idx) # close
         THEN [ok |-> FALSE, index |-> idx, comma |-> FALSE,
               msg |-> "Missing comma or closing byte"]
         ELSE [ok |-> TRUE, index |-> idx, comma |-> FALSE, msg |-> ""]

\* what follows a value in a container whose closing byte is close, lines
\* 243-250 and 285-292: the cursor after it, and the error if any
AfterValue(d, idx, close) ==
    IF Peek(d, idx) = ","
    THEN IF Peek(d, idx + 1) = close
         THEN [ok |-> FALSE, index |-> idx + 1, comma |-> TRUE,
               msg |-> "Trailing comma detected"]
         ELSE [ok |-> TRUE, index |-> idx + 1, comma |-> TRUE, msg |-> ""]
    ELSE IF Peek(d, idx) # close
         THEN [ok |-> FALSE, index |-> idx, comma |-> FALSE,
               msg |-> "Missing comma or closing byte"]
         ELSE [ok |-> TRUE, index |-> idx, comma |-> FALSE, msg |-> ""]

Top == stack[Len(stack)]
Pop == SubSeq(stack, 1, Len(stack) - 1)
ReplaceTop(f) == [stack EXCEPT ![Len(stack)] = f]

----------------------------------------------------------------------------
(* FdonParser *)

minUnchanged == <<input_bytes, i, minified, in_string_s, in_string_se,
                  passes, out1, mode, raw_content, doc>>

\* an error returned through every `?` up to parse(): the activations unwind
Fail(msg, off) ==
    /\ pc' = "done"
    /\ result' = Err(msg, off)
    /\ stack' = <<>>
    /\ ret' = NoRet

\* parse_fdon_zero_copy_arena, lines 446-452, and FdonParser::new; main.rs
\* hands it the minified content (line 75)
ParseCall ==
    /\ \/ pc = "start" /\ mode = "parse"
       \/ pc = "minified" /\ mode = "main"
    /\ data' = IF pc = "start" THEN raw_content ELSE minified
    /\ index' = 0
    /\ stack' = <<>>
    /\ ret' = NoRet
    /\ result' = NoResult
    /\ pc' = "parse_value"
    /\ UNCHANGED <<ctor, unescaped_str, start_chunk, slice, commas>>
    /\ UNCHANGED minUnchanged

\* parse_value, lines 181-228: the tag byte and the dispatch
ParseValue ==
    /\ pc = "parse_value"
    /\ LET type_char == Peek(data, index)
           next == Peek(data, index + 1)
       IN  IF type_char = EOF
           THEN /\ Fail("Unexpected EOF", index)
                /\ UNCHANGED <<index, ctor>>
           ELSE CASE type_char = "O" ->
                       /\ index' = index + 1
                       /\ pc' = "parse_object"
                       /\ UNCHANGED <<ctor, stack, ret, result>>
                  [] type_char = "A" ->
                       /\ index' = index + 1
                       /\ pc' = "parse_array"
                       /\ UNCHANGED <<ctor, stack, ret, result>>
                  [] type_char = "S" /\ next = "E" ->
                       /\ index' = index + 2
                       /\ pc' = "parse_escaped_string"
                       /\ UNCHANGED <<ctor, stack, ret, result>>
                  [] type_char = "S" /\ next # "E" ->
                       /\ index' = index + 1
                       /\ pc' = "parse_raw_string"
                       /\ ctor' = "RawString"
                       /\ UNCHANGED <<stack, ret, result>>
                  [] type_char = "D" ->
                       /\ index' = index + 1
                       /\ pc' = "parse_raw_string"
                       /\ ctor' = "Date"
                       /\ UNCHANGED <<stack, ret, result>>
                  [] type_char = "T" /\ next = QUOTE ->
                       /\ index' = index + 1
                       /\ pc' = "parse_raw_string"
                       /\ ctor' = "Time"
                       /\ UNCHANGED <<stack, ret, result>>
                  [] type_char = "T" /\ next # QUOTE ->
                       /\ index' = index + 1
                       /\ pc' = "parse_number_internal"
                       /\ ctor' = "Timestamp"
                       /\ UNCHANGED <<stack, ret, result>>
                  [] type_char = "N" ->
                       /\ index' = index + 1
                       /\ pc' = "parse_number_internal"
                       /\ ctor' = "Number"
                       /\ UNCHANGED <<stack, ret, result>>
                  [] type_char = "B" ->
                       /\ index' = index + 1
                       /\ pc' = "parse_boolean"
                       /\ UNCHANGED <<ctor, stack, ret, result>>
                  [] type_char = "U" ->
                       /\ index' = index + 1
                       /\ pc' = "return"
                       /\ ret' = SomeRet(NullV)
                       /\ UNCHANGED <<ctor, stack, result>>
                  [] OTHER ->
                       /\ index' = index + 1
                       /\ Fail("Unknown data type specifier", (index + 1) - 1)
                       /\ UNCHANGED ctor
    /\ UNCHANGED <<data, unescaped_str, start_chunk, slice, commas>>
    /\ UNCHANGED minUnchanged

\* parse_raw_string, lines 300-322
ParseRawString ==
    /\ pc = "parse_raw_string"
    /\ LET r == parse_raw_string(data, index, ctor)
       IN  /\ index' = r.index
           /\ IF r.ok
              THEN /\ pc' = "return"
                   /\ ret' = SomeRet(r.value)
                   /\ slice' = r.slice
                   /\ UNCHANGED <<stack, result>>
              ELSE /\ Fail(r.msg, r.off)
                   /\ UNCHANGED slice
    /\ UNCHANGED <<data, ctor, unescaped_str, start_chunk, commas>>
    /\ UNCHANGED minUnchanged

\* parse_number_internal and the wrap of lines 209-210, 216-217
ParseNumberInternal ==
    /\ pc = "parse_number_internal"
    /\ LET r == parse_number_internal(data, index)
       IN  /\ index' = r.index
           /\ slice' = r.slice
           /\ IF r.ok
              THEN /\ pc' = "return"
                   /\ ret' = SomeRet(Wrap(ctor, r.num))
                   /\ UNCHANGED <<stack, result>>
              ELSE Fail(r.msg, r.off)
    /\ UNCHANGED <<data, ctor, unescaped_str, start_chunk, commas>>
    /\ UNCHANGED minUnchanged

\* parse_boolean, lines 429-439
ParseBoolean ==
    /\ pc = "parse_boolean"
    /\ LET r == parse_boolean(data, index)
       IN  /\ index' = r.index
           /\ IF r.ok
              THEN /\ pc' = "return"
                   /\ ret' = SomeRet(r.value)
                   /\ UNCHANGED <<stack, result>>
              ELSE Fail("Invalid boolean value", r.index)
    /\ UNCHANGED <<data, ctor, unescaped_str, start_chunk, slice, commas>>
    /\ UNCHANGED minUnchanged

\* parse_escaped_string up to its loop, lines 325-331
ParseEscapedString ==
    /\ pc = "parse_escaped_string"
    /\ IF Peek(data, index) = QUOTE
       THEN /\ index' = index + 1
            /\ unescaped_str' = <<>>
            /\ start_chunk' = index + 1
            /\ pc' = "escaped_loop"
            /\ UNCHANGED <<stack, ret, result>>
       ELSE /\ Fail("Expected", index)
            /\ UNCHANGED <<index, unescaped_str, start_chunk>>
    /\ UNCHANGED <<data, ctor, slice, commas>>
    /\ UNCHANGED minUnchanged

\* one iteration of the loop of parse_escaped_string, or its exit at line 387
EscapedLoop ==
    /\ pc = "escaped_loop"
    /\ LET r == EscapedStep(data, index, unescaped_str, start_chunk)
       IN  /\ index' = r.index
           /\ unescaped_str' = r.str
           /\ start_chunk' = r.start_chunk
           /\ slice' = IF r.slice = <<0, 0>> THEN slice ELSE r.slice
           /\ CASE r.kind = "more" -> UNCHANGED <<pc, stack, ret, result>>
                [] r.kind = "done" ->
                     /\ pc' = "return"
                     /\ ret' = SomeRet(Wrap("EscapedString", r.str))
                     /\ UNCHANGED <<stack, result>>
                [] OTHER -> Fail(r.msg, r.off)
    /\ UNCHANGED <<data, ctor, commas>>
    /\ UNCHANGED minUnchanged

\* parse_object up to its loop, lines 231-235
ParseObject ==
    /\ pc = "parse_object"
    /\ IF Peek(data, index) = "{"
       THEN /\ index' = index + 1
            /\ stack' = Append(stack, ObjectFrame)
            /\ pc' = "object_loop"
            /\ UNCHANGED <<ret, result>>
       ELSE /\ Fail("Expected", index)
            /\ UNCHANGED index
    /\ UNCHANGED <<data, ctor, unescaped_str, start_chunk, slice, commas>>
    /\ UNCHANGED minUnchanged

\* the loop test of parse_object (line 237), then either the key and ':' of
\* lines 238-239 and the call of parse_value, or the exit of lines 252-253
ObjectLoop ==
    /\ pc = "object_loop"
    /\ IF Peek(data, index) # "}"
       THEN LET k == parse_key(data, index)
            IN  IF k.ok
                THEN /\ index' = k.index + 1
                     /\ slice' = k.slice
                     /\ stack' = ReplaceTop([Top EXCEPT !.key = k.key])
                     /\ pc' = "parse_value"
                     /\ UNCHANGED <<ret, result>>
                ELSE /\ Fail("EOF while reading key", index)
                     /\ UNCHANGED <<index, slice>>
       ELSE /\ index' = index + 1
            /\ stack' = Pop
            /\ ret' = SomeRet(Wrap("Object", Top.obj))
            /\ pc' = "return"
            /\ UNCHANGED <<result, slice>>
    /\ UNCHANGED <<data, ctor, unescaped_str, start_chunk, commas>>
    /\ UNCHANGED minUnchanged

\* parse_value has returned into parse_object: lines 240-250
ObjectAfterValue ==
    /\ pc = "return"
    /\ stack # <<>>
    /\ Top.kind = "O"
    /\ LET r == AfterValue(data, index, "}")
           obj == Insert(Top.obj, Top.key, ret.v)
       IN  /\ index' = r.index
           /\ commas' = IF r.comma THEN commas \cup {<<"O", index>>} ELSE commas
           /\ IF r.ok
              THEN /\ stack' = ReplaceTop([Top EXCEPT !.obj = obj, !.key = NoKey])
                   /\ ret' = NoRet
                   /\ pc' = "object_loop"
                   /\ UNCHANGED result
              ELSE Fail(r.msg, r.index)
    /\ UNCHANGED <<data, ctor, unescaped_str, start_chunk, slice>>
    /\ UNCHANGED minUnchanged

\* parse_array up to its loop, lines 277-280
ParseArray ==
    /\ pc = "parse_array"
    /\ IF Peek(data, index) = "["
       THEN /\ index' = index + 1
            /\ stack' = Append(stack, ArrayFrame)
            /\ pc' = "array_loop"
            /\ UNCHANGED <<ret, result>>
       ELSE /\ Fail("Expected", index)
            /\ UNCHANGED index
    /\ UNCHANGED <<data, ctor, unescaped_str, start_chunk, slice, commas>>
    /\ UNCHANGED minUnchanged

\* the loop test of parse_array (line 282), then either the call of
\* parse_value or the exit of lines 294-295
ArrayLoop ==
    /\ pc = "array_loop"
    /\ IF Peek(data, index) # "]"
       THEN /\ pc' = "parse_value"
            /\ UNCHANGED <<index, stack, ret>>
       ELSE /\ index' = index + 1
            /\ stack' = Pop
            /\ ret' = SomeRet(Wrap("Array", Top.arr))
            /\ pc' = "return"
    /\ UNCHANGED <<data, ctor, unescaped_str, start_chunk, slice, commas, result>>
    /\ UNCHANGED minUnchanged

\* parse_value has returned into parse_array: lines 283-292
ArrayAfterValue ==
    /\ pc = "return"
    /\ stack # <<>>
    /\ Top.kind = "A"
    /\ LET r == AfterValue(data, index, "]")
           arr == Push(Top.arr, ret.v)
       IN  /\ index' = r.index
           /\ commas' = IF r.comma THEN commas \cup {<<"A", index>>} ELSE commas
           /\ IF r.ok
              THEN /\ stack' = ReplaceTop([Top EXCEPT !.arr = arr])
                   /\ ret' = NoRet
                   /\ pc' = "array_loop"
                   /\ UNCHANGED result
              ELSE Fail(r.msg, r.index)
    /\ UNCHANGED <<data, ctor, unescaped_str, start_chunk, slice>>
    /\ UNCHANGED minUnchanged

\* parse() without its end-of-input test
EndOfInput_untested(d, idx, value) == Ok(value)

\* the end-of-input test of parse(), lines 170-177
EndOfInput(d, idx, value) ==
    IF idx # Len(d)
    THEN Err("Extra data detected at end of file", idx)
    ELSE Ok(value)

\* parse_value has returned into parse(), lines 169-177
ParseReturn ==
    /\ pc = "return"
    /\ stack = <<>>
    /\ result' = EndOfInput(data, index, ret.v)
    /\ pc' = "done"
    /\ UNCHANGED <<data, index, stack, ctor, unescaped_str, start_chunk, ret,
                   slice, commas>>
    /\ UNCHANGED minUnchanged

----------------------------------------------------------------------------
(* Inputs *)

\* bounds of the input families
MaxLen == 7
MaxLenWide == 4
MaxElems == 2
MaxTok == 5
MaxEsc == 3

\* every sequence of at most n members of set
SeqsUpTo(set, n) == UNION {[1..m -> set] : m \in 0..n}

\* the concatenation of a sequence of byte sequences
RECURSIVE Flatten(_)
Flatten(ss) == IF ss = <<>> THEN <<>> ELSE Head(ss) \o Flatten(Tail(ss))

Prefixes(b) == {SubSeq(b, 1, n) : n \in 0..Len(b)}

\* one of each kind of value, with the FdonValue it denotes; `tag` is the
\* tag byte(s) and `body` the rest, so that whitespace can be put between
Item(tag, body, val) == [tag |-> tag, body |-> body, val |-> val]

Items ==
    { Item(<<"U">>, <<>>, NullV),
      Item(<<"B">>, <<"t", "r", "u", "e">>, BoolV(TRUE)),
      Item(<<"B">>, <<"f", "a", "l", "s", "e">>, BoolV(FALSE)),
      Item(<<"N">>, <<"1">>, Wrap("Number", IntegerN(1))),
      Item(<<"N">>, <<"2", ".", "5">>, Wrap("Number", FloatN(<<"2", ".", "5">>))),
      Item(<<"T">>, <<"7">>, Wrap("Timestamp", IntegerN(7))),
      Item(<<"T">>, <<QUOTE, "a", QUOTE>>, Wrap("Time", <<"a">>)),
      Item(<<"D">>, <<QUOTE, "a", QUOTE>>, Wrap("Date", <<"a">>)),
      Item(<<"S">>, <<QUOTE, "S", "E", QUOTE>>, Wrap("RawString", <<"S", "E">>)),
      Item(<<"S", "E">>, <<QUOTE, "a", BACKSLASH, "n", QUOTE>>,
           Wrap("EscapedString", <<"a", LF>>)),
      Item(<<"A">>, <<"[", "U", "]">>, Wrap("Array", <<NullV>>)),
      Item(<<"O">>, <<"{", "}">>, Wrap("Object", EmptyObject)) }

Keys == {<<"a">>, <<"S", QUOTE>>}

\* a document: one value, an array of values or an object of key:value pairs
NoDoc == [kind |-> "none", elems |-> <<>>]
Elems == [key : Keys, item : Items]
Docs ==
    {[kind |-> "L", elems |-> <<e>>] : e \in {x \in Elems : x.key = <<"a">>}}
    \cup {[kind |-> "A", elems |-> es] :
             es \in SeqsUpTo({x \in Elems : x.key = <<"a">>}, MaxElems)}
    \cup {[kind |-> "O", elems |-> es] : es \in SeqsUpTo(Elems, MaxElems)}

\* the places of a document where whitespace may be written
Slots == {"open", "tag", "colon", "sep", "comma"}

Gap(ws, slot) == IF slot \in ws THEN (IF slot = "comma" THEN <<LF>> ELSE <<SPACE>>)
                 ELSE <<>>

RenderItem(it, ws) == it.tag \o Gap(ws, "tag") \o it.body

RenderElem(kind, e, ws) ==
    (IF kind = "O"
     THEN e.key \o Gap(ws, "colon") \o <<":">> \o Gap(ws, "colon")
     ELSE <<>>)
    \o RenderItem(e.item, ws) \o Gap(ws, "sep")

RECURSIVE RenderElems(_, _, _)
RenderElems(kind, es, ws) ==
    IF es = <<>> THEN <<>>
    ELSE IF Len(es) = 1 THEN RenderElem(kind, es[1], ws)
    ELSE RenderElem(kind, es[1], ws) \o <<",">> \o Gap(ws, "comma")
         \o RenderElems(kind, Tail(es), ws)

\* the text of a document, with whitespace in the slots of ws
Render(d, ws) ==
    CASE d.kind = "L" -> Gap(ws, "open") \o RenderElems("L", d.elems, ws)
      [] d.kind = "A" ->
           <<"A">> \o Gap(ws, "tag") \o <<"[">> \o Gap(ws, "open")
           \o RenderElems("A", d.elems, ws) \o <<"]">> \o Gap(ws, "sep")
      [] d.kind = "O" ->
           <<"O">> \o Gap(ws, "tag") \o <<"{">> \o Gap(ws, "open")
           \o RenderElems("O", d.elems, ws) \o <<"}">> \o Gap(ws, "sep")

\* byte strings for the minifier
MinifyBytes == {"S", "E", QUOTE, SPACE}
MinifyBytesWide == {"S", "E", "T", QUOTE, BACKSLASH, SPACE, LF, "a"}
MinifyInputs ==
    SeqsUpTo(MinifyBytes, MaxLen) \cup SeqsUpTo(MinifyBytesWide, MaxLenWide)

\* byte strings for the parser: token strings, escaped strings whose payload
\* is made of whole UTF-8 characters, and the documents cut short or extended
Tokens ==
    { <<"A", "[">>, <<"]">>, <<",">>, <<"U">>, <<"N", "1">>,
      <<"O", "{", "k", ":">>, <<"}">>, <<",", "k", ":">> }
OddInputs == { <<"A", "[", "N", "1", "N", "2", "]">>, <<"N", "1", "N">> }
EscapedChars ==
    { <<BACKSLASH>>, <<QUOTE>>, <<"n">>, <<"t">>, <<"r">>, <<"a">>,
      <<"C3", "A9">> }
TokenInputs == {Flatten(ts) : ts \in SeqsUpTo(Tokens, MaxTok)}
EscapedInputs ==
    {<<"S", "E", QUOTE>> \o Flatten(cs) : cs \in SeqsUpTo(EscapedChars, MaxEsc)}
CutDocs == {d \in Docs : Len(d.elems) <= 1}
CutInputs ==
    UNION {Prefixes(Render(d, {})) : d \in CutDocs}
    \cup {Render(d, {}) \o <<b>> : d \in CutDocs, b \in {"U", ",", "]", "x"}}
ParseInputs == TokenInputs \cup EscapedInputs \cup CutInputs \cup OddInputs

----------------------------------------------------------------------------
(* Specifications *)

InitRest ==
    /\ pc = "start"
    /\ input_bytes = <<>>
    /\ i = 0
    /\ minified = <<>>
    /\ in_string_s = FALSE
    /\ in_string_se = FALSE
    /\ passes = 0
    /\ out1 = <<>>
    /\ data = <<>>
    /\ index = 0
    /\ stack = <<>>
    /\ ctor = "None"
    /\ unescaped_str = <<>>
    /\ start_chunk = 0
    /\ ret = NoRet
    /\ result = NoResult
    /\ slice = <<0, 0>>
    /\ commas = {}

\* main.rs: a document, possibly with whitespace, is minified and then parsed
Init ==
    /\ mode = "main"
    /\ doc \in Docs
    /\ \E ws \in SUBSET Slots : raw_content = Render(doc, ws)
    /\ InitRest

\* minify_fdon applied to arbitrary bytes, and again to what it returned
InitMinify ==
    /\ mode = "minify"
    /\ doc = NoDoc
    /\ raw_content \in MinifyInputs
    /\ InitRest

\* the parser applied to bytes as they are
InitParse ==
    /\ mode = "parse"
    /\ \/ doc = NoDoc /\ raw_content \in ParseInputs
       \/ doc \in Docs /\ raw_content = Render(doc, {})
    /\ InitRest

NextMinify ==
    \/ MinifyCall
    \/ MinifyQuote
    \/ MinifyEscaped
    \/ MinifySkip
    \/ MinifyCopy
    \/ MinifyReturn

NextParse ==
    \/ ParseCall
    \/ ParseValue
    \/ ParseRawString
    \/ ParseNumberInternal
    \/ ParseBoolean
    \/ ParseEscapedString
    \/ EscapedLoop
    \/ ParseObject
    \/ ObjectLoop
    \/ ObjectAfterValue
    \/ ParseArray
    \/ ArrayLoop
    \/ ArrayAfterValue
    \/ ParseReturn

Next == NextMinify \/ NextParse

Spec == Init /\ [][Next]_vars
SpecMinify == InitMinify /\ [][NextMinify]_vars
SpecParse == InitParse /\ [][NextParse]_vars

----------------------------------------------------------------------------
(* Claims *)

\* C1: minify_fdon is idempotent: minifying what minify_fdon returned gives
\* the same bytes again.
C1_Idempotent ==
    (mode = "minify" /\ pc = "minified" /\ passes = 2) => minified = out1

\* C2: for every valid document, with whitespace between its tokens, parsing
\* what minify_fdon returned succeeds.
C2_ParseOfMinifiedSucceeds ==
    (mode = "main" /\ pc = "done") => result.st = "Ok"

\* C3: the content of a literal is preserved byte for byte.  Inside a raw
\* literal (opened by '"' directly after S, D or T, and closed by a later '"')
\* a step that does not read the closing '"' emits exactly the bytes it
\* consumes; a step that opens an
\* escaped literal (S, E, whitespace, '"') emits S, E and then exactly the bytes
\* it consumes from the opening '"' on.
C3_InRawLiteral ==
    /\ pc = "minify"
    /\ i < Len(input_bytes)
    /\ in_string_s
    /\ At(input_bytes, i) # QUOTE
    /\ \E c \in i..(Len(input_bytes) - 1) : At(input_bytes, c) = QUOTE

C3_OpensEscaped(q) ==
    /\ pc = "minify"
    /\ i + 1 < Len(input_bytes)
    /\ ~in_string_s
    /\ At(input_bytes, i) = "S" /\ At(input_bytes, i + 1) = "E"
    /\ q \in (i + 2)..(Len(input_bytes) - 1)
    /\ At(input_bytes, q) = QUOTE
    /\ \A k \in (i + 2)..(q - 1) : IsWs(At(input_bytes, k))

C3_LiteralPreserved ==
    [][ /\ C3_InRawLiteral =>
             minified' = minified \o Slice(input_bytes, i, i')
        /\ \A q \in 0..Len(input_bytes) :
             C3_OpensEscaped(q) =>
                minified' = (minified \o <<"S", "E">>) \o Slice(input_bytes, q, i')
      ]_vars

\* C4: a '"' met outside an escaped literal, and outside a raw one, opens a
\* raw literal iff the last byte emitted so far is S, D or T (so that
\* whitespace between the tag and the '"' makes no difference).
C4_QuoteOutside ==
    /\ pc = "minify"
    /\ i < Len(input_bytes)
    /\ At(input_bytes, i) = QUOTE
    /\ ~in_string_se
    /\ ~in_string_s

C4_OpensAfterEmittedTag ==
    [][ C4_QuoteOutside =>
          (in_string_s' <=> (/\ minified # <<>>
                             /\ minified[Len(minified)] \in {"S", "D", "T"}))
      ]_vars

\* C5: the number decoder rejects malformed integer text: when the bytes up
\* to the next ',', '}' or ']' (or the end of input) hold no '.' and are not an
\* optional sign followed only by decimal digits, parse_number_internal returns
\* an error; so parsing A[N1N2] returns an error.
C5_NumberText ==
    LET stops == {k \in index..Len(data) :
                     k = Len(data) \/ At(data, k) \in {",", "}", "]"}}
        end == CHOOSE k \in stops : \A m \in stops : k <= m
    IN  Slice(data, index, end)

C5_MalformedInteger(s) ==
    /\ \A k \in 1..Len(s) : s[k] # "."
    /\ ~(\E first \in {1, 2} :
            /\ first <= Len(s)
            /\ first = 2 => s[1] \in {"+", "-"}
            /\ \A k \in first..Len(s) : s[k] \in Digit)

C5_MalformedIntegerRejected ==
    [][ /\ (pc = "parse_number_internal" /\ C5_MalformedInteger(C5_NumberText))
            => result'.st = "Err"
        /\ (pc' = "done" /\ data' = <<"A", "[", "N", "1", "N", "2", "]">>)
            => result'.st = "Err"
      ]_vars

\* C6: parse returns Ok(value) only when the cursor is at the end of the
\* input after the one top-level value has been returned, and the value is
\* that one; when a byte is left unconsumed after the top-level value, parse
\* returns an error whose offset is the index of the first unconsumed byte.
C6_ExtraDataRejected ==
    /\ (pc = "done" /\ result.st = "Ok") =>
          /\ index = Len(data)
          /\ ret.some
          /\ result.value = ret.v
    /\ (pc = "done" /\ ret.some /\ index # Len(data)) =>
          /\ index < Len(data)
          /\ result.st = "Err"
          /\ result.offset = index

C6_Witness ==
    /\ pc = "done"
    /\ ret.some
    /\ index < Len(data)
    /\ result.st = "Err"
    /\ result.offset = index

\* C7: a trailing comma is always rejected: once parse_object has read a ','
\* that is followed by '}', or parse_array one followed by ']', at any depth,
\* the parse has returned an error; and no input made only of arrays, nulls
\* and numbers that holds the bytes ",]" parses successfully.
C7_IsTrailing(c) ==
    \/ c[1] = "O" /\ Peek(data, c[2] + 1) = "}"
    \/ c[1] = "A" /\ Peek(data, c[2] + 1) = "]"

C7_ArrayBytes == {"A", "[", "]", ",", "U", "N"} \cup Digit

C7_TrailingCommaRejected ==
    /\ \A c \in commas : C7_IsTrailing(c) => (pc = "done" /\ result.st = "Err")
    /\ (/\ pc = "done"
        /\ result.st = "Ok"
        /\ \A k \in 1..Len(data) : data[k] \in C7_ArrayBytes)
          => ~(\E k \in 1..(Len(data) - 1) : data[k] = "," /\ data[k + 1] = "]")

\* a trailing comma in an object that is an element of an array
C7_Witness ==
    /\ pc = "done"
    /\ result.st = "Err"
    /\ Len(data) > 0 /\ data[1] = "A"
    /\ \E c \in commas : c[1] = "O" /\ C7_IsTrailing(c)

\* C8: parse_escaped_string expands escapes per the table: after the opening
\* '"', a backslash followed by n, t, r, '"' or '\' gives LF, TAB, CR, '"' or
\* '\', a backslash followed by any other byte x gives exactly the byte x, any
\* other byte before the first unescaped '"' is copied, and a backslash at the
\* end of input, or no unescaped '"', is an error.  (Stated for an escaped
\* string that is the top-level value.)
C8_Table(x) ==
    CASE x = "n" -> LF
      [] x = "t" -> TAB
      [] x = "r" -> CR
      [] OTHER -> x

\* the table applied byte by byte from position k on
RECURSIVE C8_Decode(_, _, _)
C8_Decode(d, k, acc) ==
    IF k >= Len(d) THEN [ok |-> FALSE, str |-> acc, end |-> k]
    ELSE IF At(d, k) = QUOTE THEN [ok |-> TRUE, str |-> acc, end |-> k + 1]
    ELSE IF At(d, k) = BACKSLASH
         THEN IF k + 1 >= Len(d)
              THEN [ok |-> FALSE, str |-> acc, end |-> k + 1]
              ELSE C8_Decode(d, k + 2, Append(acc, C8_Table(At(d, k + 1))))
    ELSE C8_Decode(d, k + 1, Append(acc, At(d, k)))

C8_TopLevelEscaped ==
    /\ mode = "parse"
    /\ Len(data) >= 3
    /\ SubSeq(data, 1, 3) = <<"S", "E", QUOTE>>

C9_LastOf(key) ==
    LET ks == {k \in 1..Len(doc.elems) : doc.elems[k].key = key}
        last == CHOOSE k \in ks : \A m \in ks : m <= k
    IN  doc.elems[last].item.val

C9_ContainerCardinality ==
    (mode = "parse" /\ pc = "done" /\ result.st = "Ok") =>
        /\ doc.kind = "A" =>
             /\ result.value.t = "Array"
             /\ Len(result.value.v) = Len(doc.elems)
             /\ \A k \in 1..Len(doc.elems) :
                   result.value.v[k] = doc.elems[k].item.val
        /\ doc.kind = "O" =>
             /\ result.value.t = "Object"
             /\ DOMAIN result.value.v =
                   {doc.elems[k].key : k \in 1..Len(doc.elems)}
             /\ Cardinality(DOMAIN result.value.v) <= Len(doc.elems)
             /\ \A key \in DOMAIN result.value.v :
                   result.value.v[key] = C9_LastOf(key)

\* an object written with the same key twice, with different values
C9_Witness ==
    /\ mode = "parse" /\ pc = "done" /\ result.st = "Ok"
    /\ doc.kind = "O"
    /\ Len(doc.elems) = 2
    /\ doc.elems[1].key = doc.elems[2].key
    /\ doc.elems[1].item # doc.elems[2].item
    /\ Cardinality(DOMAIN result.value.v) = 1

\* C10: while the parser runs, 0 <= index <= length of the input; every slice
\* taken of the input (key, raw string, number, chunk of an escaped string)
\* lies inside it; and the offset of a returned error is in [0, length].
C10_CursorInBounds ==
    mode = "parse" =>
        /\ 0 <= index /\ index <= Len(data)
        /\ 0 <= slice[1] /\ slice[1] <= slice[2] /\ slice[2] <= Len(data)
        /\ 0 <= start_chunk /\ start_chunk <= Len(data)
        /\ result.st = "Err" => (0 <= result.offset /\ result.offset <= Len(data))

\* a boolean cut short: fewer than four bytes follow the tag
C10_Witness ==
    /\ mode = "parse" /\ pc = "done"
    /\ result.st = "Err"
    /\ result.msg = "Invalid boolean value"
    /\ Peek(data, index) = "t"
    /\ index + 4 > Len(data)

\* C11: minify_fdon only ever deletes whitespace.  At every point of the loop
\* the output so far is the consumed part of the input with some bytes of
\* {0x20, 0x09, 0x0A, 0x0D} removed, every other byte kept once and in order;
\* an input without whitespace is returned unchanged; and every iteration of
\* the loop moves the index strictly forward, never past the end of the input.
C11_Whitespace == {SPACE, TAB, LF, CR}

\* out is inp with some whitespace bytes removed
RECURSIVE C11_Deleted(_, _)
C11_Deleted(inp, out) ==
    IF inp = <<>> THEN out = <<>>
    ELSE \/ /\ out # <<>>
            /\ Head(inp) = Head(out)
            /\ C11_Deleted(Tail(inp), Tail(out))
         \/ /\ Head(inp) \in C11_Whitespace
            /\ C11_Deleted(Tail(inp), out)

C11_OutputIsInputLessWs ==
    /\ 0 <= i /\ i <= Len(input_bytes)
    /\ C11_Deleted(Slice(input_bytes, 0, i), minified)
    /\ (pc = "minified" /\ \A k \in 0..(Len(input_bytes) - 1) :
                              At(input_bytes, k) \notin C11_Whitespace)
          => minified = input_bytes

C11_IndexAdvances ==
    (pc = "minify" /\ pc' = "minify") => (i < i' /\ i' <= Len(input_bytes))

C11_OnlyDeletesWhitespace ==
    []C11_OutputIsInputLessWs /\ [][C11_IndexAdvances]_vars

\* a returned output that went through the three branches (the default copy
\* of a leading S, the '"' after it, an SE prefix), with one whitespace byte
\* removed and another kept
C11_Witness ==
    /\ mode = "minify" /\ pc = "minified" /\ passes = 1
    /\ Len(minified) < Len(input_bytes)
    /\ \E k \in 1..Len(minified) : minified[k] \in C11_Whitespace
    /\ \E k \in 1..Len(input_bytes) : input_bytes[k] = QUOTE
    /\ \E k \in 1..(Len(input_bytes) - 1) :
          input_bytes[k] = "S" /\ input_bytes[k + 1] = "E"
    /\ Len(input_bytes) >= 2 /\ input_bytes[1] = "S" /\ input_bytes[2] = QUOTE

====
